---- MODULE Spec2Model ----
(***************************************************************************)
(* Service lifecycle, callback registry/dispatch and project removal of    *)
(* empower-core (empower_core/service.py, projectsmanager.py).             *)
(*                                                                         *)
(* The services modelled are the ones a container instantiates: their      *)
(* context is a project, so that their manifest resolves.  Loop periods    *)
(* are -1 (loop disabled) or positive.                                     *)
(***************************************************************************)
EXTENDS Integers, Sequences, FiniteSets, TLC

\* ------------------------------------------------------------- bounds ---
MaxPeriod == 2
MaxTimers == 3

\* ---------------------------------------------------------- constants ---
CALLBACK_NATIVE == "native"
CALLBACK_REST == "rest"
CALLBACK_TYPES == {CALLBACK_NATIVE, CALLBACK_REST}

None == "None"
\* self.worker = None
NoWorker == 0
Self == "self"
NoContext == "no_context"

Services == {"s1", "s2"}
ProjectIds == {"p1", "p2"}
\* ids a request can name: the registered ones and a fresh one
CreateIds == ProjectIds \cup {"p3"}

\* self.context of every service (the owning project)
Context == [s \in Services |-> "p1"]

\* order in which a project walks its services
ServiceOrder == <<"s1", "s2">>

\* self.manifest: s1's type declares two callbacks, s2's type has no
\* 'callbacks' key at all
ManifestHasCallbacks == [s \in Services |-> s = "s1"]
ManifestCallbacks == [s \in Services |-> IF s = "s1" THEN {"default", "alt"} ELSE {}]

Periods == {-1} \cup (1..MaxPeriod)

\* ------------------------------------------------------------- inputs ---
CallbackNames == {"default", "alt", "bogus"}
CallbackKinds == {CALLBACK_NATIVE, CALLBACK_REST, "soap"}
\* a function, and a callable object that is neither function nor method
Functions == {"fn"}
Invocables == Functions \cup {"partial"}
Urls == {"http://h/p", "HTTP://h/p", "http://h/p?", "h/p#"}
Targets == Invocables \cup Urls
\* params argument of handle_callbacks: absent, three falsy values, one truthy
Payloads == {None, "{}", "''", "0", "{'k': 1}"}
\* outcome of the delivery attempted by handle_callbacks
Outcomes == {"ok", "handle_raises", "serialize_raises", "post_raises", "status_500"}
\* values assigned to `every`: integers, numeric text, non numeric text
EveryInputs == [tag : {"int"}, val : Periods] \cup [tag : {"str"}, val : Periods]
                 \cup [tag : {"bad"}, val : {0}]

VARIABLES
    params,     \* params[s]: the service's parameter map (self.params)
    worker,     \* worker[s]: index of the held PeriodicCallback, or NoWorker
    timers,     \* every PeriodicCallback ever allocated, in allocation order
    callbacks,  \* callbacks[s]: name -> entry (self.callbacks)
    durable,    \* durable[s]: the record written by the last durable-save
    projects,   \* ProjectsManager.projects (registered project ids)
    db,         \* project documents in the store
    projdesc,   \* projdesc[p]: desc of the registered project object, or None
    dbdesc,     \* dbdesc[p]: desc of the stored project document, or None
    fired,      \* timers with an odd number of firings so far
    last        \* the last call and what it did

vars == <<params, worker, timers, callbacks, durable, projects, db, projdesc,
          dbdesc, fired, last>>

NoEntries == [n \in {} |-> None]

Op(op, svc, name, kind, arg, value, outcome, result, saves, invoked, posted, logged) ==
    [op |-> op, svc |-> svc, name |-> name, kind |-> kind, arg |-> arg,
     value |-> value, outcome |-> outcome, result |-> result, saves |-> saves,
     invoked |-> invoked, posted |-> posted, logged |-> logged, ret |-> <<>>]

\* the record of a call that returned the value ret
Returning(o, ret) == [o EXCEPT !.ret = <<ret>>]

\* the mutable state the operations act on, plus what one call has done
World ==
    [params |-> params, worker |-> worker, timers |-> timers,
     callbacks |-> callbacks, durable |-> durable,
     saves |-> 0, error |-> "none"]

\* ------------------------------------------------------- EService ---
\* EService.__init__: callbacks empty, worker None, every from kwargs (s1)
\* or -1 when kwargs has none (s2); the container has persisted the record
\* of each service it instantiated
Init ==
    /\ params \in [Services -> [every : Periods]]
    /\ params["s2"].every = -1
    /\ worker = [s \in Services |-> NoWorker]
    /\ timers = <<>>
    /\ callbacks = [s \in Services |-> NoEntries]
    /\ durable = [s \in Services |-> [params |-> params[s], callbacks |-> NoEntries]]
    /\ projects = ProjectIds
    /\ db = ProjectIds
    /\ projdesc = [p \in CreateIds |-> IF p \in ProjectIds THEN "d1" ELSE None]
    /\ dbdesc = projdesc
    /\ fired = {}
    /\ last = Op("init", None, None, None, None, 0, None, "returned", 0, <<>>, <<>>, "none")

\* the entries of a registry that reach the durable record
RestEntries(cbs) ==
    [n \in {m \in DOMAIN cbs : cbs[m].callback_type = CALLBACK_REST} |-> cbs[n]]

\* Env.save_service_state: writes the service's record to the store
ContextSave(w, s) ==
    [w EXCEPT !.durable[s] = [params |-> w.params[s],
                              callbacks |-> RestEntries(w.callbacks[s])],
              !.saves = @ + 1]

save_service_state(w, s) ==
    IF Context[s] = NoContext THEN w ELSE ContextSave(w, s)

start(w, s) ==
    IF w.params[s].every = -1 THEN w
    ELSE [w EXCEPT !.timers = Append(@, [svc |-> s, period |-> w.params[s].every,
                                         running |-> TRUE]),
                   !.worker[s] = Len(w.timers) + 1]

stop(w, s) ==
    LET w1 == save_service_state(w, s) IN
    IF w1.params[s].every = -1 THEN w1
    ELSE IF w1.worker[s] = NoWorker THEN [w1 EXCEPT !.error = "AttributeError"]
    ELSE [w1 EXCEPT !.timers[w1.worker[s]].running = FALSE,
                    !.worker[s] = NoWorker]

\* int(value)
IntOf(v) == IF v.tag = "bad" THEN [ok |-> FALSE, val |-> 0]
            ELSE [ok |-> TRUE, val |-> v.val]

every_setter(w, s, v) ==
    IF ~IntOf(v).ok THEN [w EXCEPT !.error = "ValueError"]
    ELSE LET w1 == [w EXCEPT !.params[s].every = IntOf(v).val] IN
         IF w1.worker[s] # NoWorker
         THEN LET w2 == stop(w1, s) IN
              IF w2.error # "none" THEN w2 ELSE start(w2, s)
         ELSE w1

\* a call's state changes, as the variables' next values
Commit(w) ==
    /\ params' = w.params
    /\ worker' = w.worker
    /\ timers' = w.timers
    /\ callbacks' = w.callbacks
    /\ durable' = w.durable

Result(w) == IF w.error = "none" THEN "returned" ELSE w.error

\* a request or a tick can reach a service while its project is registered
Reachable(s) == Context[s] \in projects

Start(s) ==
    /\ Reachable(s)
    /\ Len(timers) < MaxTimers
    /\ LET w == start(World, s) IN
       /\ Commit(w)
       /\ last' = Op("start", s, None, None, None, 0, None, Result(w), w.saves, <<>>, <<>>, "none")
    /\ UNCHANGED <<projects, db, projdesc, dbdesc, fired>>

Stop(s) ==
    /\ Reachable(s)
    /\ LET w == stop(World, s) IN
       /\ Commit(w)
       /\ last' = Op("stop", s, None, None, None, 0, None, Result(w), w.saves, <<>>, <<>>, "none")
    /\ UNCHANGED <<projects, db, projdesc, dbdesc, fired>>

SetEvery(s, v) ==
    /\ Reachable(s)
    /\ Len(timers) < MaxTimers
    /\ LET w == every_setter(World, s, v) IN
       /\ Commit(w)
       /\ last' = Op("every", s, None, None, v.tag, v.val, None, Result(w), w.saves, <<>>, <<>>, "none")
    /\ UNCHANGED <<projects, db, projdesc, dbdesc, fired>>

\* how the body of one tick ends
TickOutcomes == {"ok", "raises"}

\* a tick whose failure cancels the timer and drops the handle
tick_failure_stops(w, t, outcome) ==
    IF outcome = "raises"
    THEN [w EXCEPT !.timers[t].running = FALSE,
                   !.worker[w.timers[t].svc] = NoWorker]
    ELSE w

\* the loop body run by one firing of PeriodicCallback t.  It is entered
\* from the event loop, which was given the bound method by start();
\* whether the body returns or raises, no statement of the service
\* cancels the timer, clears the handle or changes a parameter, and the
\* PeriodicCallback logs the exception and schedules its next firing
tick(w, t, outcome) == w

\* one firing of PeriodicCallback t: runs EService.loop
Tick(t) ==
    /\ t \in DOMAIN timers
    /\ timers[t].running
    /\ \E outcome \in TickOutcomes :
         LET w == tick(World, t, outcome) IN
         /\ Commit(w)
         /\ last' = Op("tick", timers[t].svc, ToString(t), None, None,
                       timers[t].period, outcome, Result(w), 0, <<>>, <<>>,
                       IF outcome = "raises" THEN "error" ELSE "info")
    /\ fired' = (fired \ {t}) \cup ({t} \ fired)
    /\ UNCHANGED <<projects, db, projdesc, dbdesc>>

\* ------------------------------------------------------ callbacks ---
\* urlparse(callback).geturl(): lower-case scheme, empty query or fragment
\* dropped
geturl(u) ==
    CASE u = "HTTP://h/p" -> "http://h/p"
      [] u = "http://h/p?" -> "http://h/p"
      [] u = "h/p#" -> "h/p"
      [] OTHER -> u

\* isinstance(callback, (types.FunctionType, types.MethodType))
IsFunctionOrMethod(callback) == callback \in Functions

\* truth value of the params argument
Truthy(p) == p \notin {None, "{}", "''", "0"}

Entry(name, callback, callback_type) ==
    [name |-> name, callback |-> callback, callback_type |-> callback_type]

\* self.callbacks[name] = entry
Put(w, s, name, entry) ==
    [w EXCEPT !.callbacks[s] =
        [n \in DOMAIN @ \cup {name} |-> IF n = name THEN entry ELSE @[n]]]

\* add_callback storing the rest target as given, without urlparse/geturl
add_callback_raw_url(w, s, callback, name, callback_type) ==
    IF ~ManifestHasCallbacks[s]
    THEN [w EXCEPT !.error = "KeyError: Callback not defined"]
    ELSE IF name \notin ManifestCallbacks[s]
    THEN [w EXCEPT !.error = "KeyError: Callback not defined"]
    ELSE IF callback_type \notin CALLBACK_TYPES
    THEN [w EXCEPT !.error = "ValueError: Invalid callback type"]
    ELSE IF callback_type = CALLBACK_NATIVE
    THEN IF ~IsFunctionOrMethod(callback)
         THEN [w EXCEPT !.error = "ValueError: Callback not callable"]
         ELSE Put(w, s, name, Entry(name, callback, CALLBACK_NATIVE))
    ELSE save_service_state(
             Put(w, s, name, Entry(name, callback, CALLBACK_REST)), s)

\* add_callback without the isinstance test on a native target
add_callback_unchecked_target(w, s, callback, name, callback_type) ==
    IF ~ManifestHasCallbacks[s]
    THEN [w EXCEPT !.error = "KeyError: Callback not defined"]
    ELSE IF name \notin ManifestCallbacks[s]
    THEN [w EXCEPT !.error = "KeyError: Callback not defined"]
    ELSE IF callback_type \notin CALLBACK_TYPES
    THEN [w EXCEPT !.error = "ValueError: Invalid callback type"]
    ELSE IF callback_type = CALLBACK_NATIVE
    THEN Put(w, s, name, Entry(name, callback, CALLBACK_NATIVE))
    ELSE save_service_state(
             Put(w, s, name, Entry(name, geturl(callback), CALLBACK_REST)), s)

\* add_callback saving the state before the rest entry is stored
add_callback_save_first(w, s, callback, name, callback_type) ==
    IF ~ManifestHasCallbacks[s]
    THEN [w EXCEPT !.error = "KeyError: Callback not defined"]
    ELSE IF name \notin ManifestCallbacks[s]
    THEN [w EXCEPT !.error = "KeyError: Callback not defined"]
    ELSE IF callback_type \notin CALLBACK_TYPES
    THEN [w EXCEPT !.error = "ValueError: Invalid callback type"]
    ELSE IF callback_type = CALLBACK_NATIVE
    THEN IF ~IsFunctionOrMethod(callback)
         THEN [w EXCEPT !.error = "ValueError: Callback not callable"]
         ELSE Put(w, s, name, Entry(name, callback, CALLBACK_NATIVE))
    ELSE Put(save_service_state(w, s), s, name,
             Entry(name, geturl(callback), CALLBACK_REST))

add_callback(w, s, callback, name, callback_type) ==
    IF ~ManifestHasCallbacks[s]
    THEN [w EXCEPT !.error = "KeyError: Callback not defined"]
    ELSE IF name \notin ManifestCallbacks[s]
    THEN [w EXCEPT !.error = "KeyError: Callback not defined"]
    ELSE IF callback_type \notin CALLBACK_TYPES
    THEN [w EXCEPT !.error = "ValueError: Invalid callback type"]
    ELSE IF callback_type = CALLBACK_NATIVE
    THEN IF ~IsFunctionOrMethod(callback)
         THEN [w EXCEPT !.error = "ValueError: Callback not callable"]
         ELSE Put(w, s, name, Entry(name, callback, CALLBACK_NATIVE))
    ELSE save_service_state(
             Put(w, s, name, Entry(name, geturl(callback), CALLBACK_REST)), s)

\* rem_callback saving only when the removed entry was a rest one
rem_callback_save_rest_only(w, s, name) ==
    IF name \notin DOMAIN w.callbacks[s]
    THEN [w EXCEPT !.error = "KeyError"]
    ELSE LET w1 == [w EXCEPT !.callbacks[s] = [n \in DOMAIN @ \ {name} |-> @[n]]]
         IN IF w.callbacks[s][name].callback_type = CALLBACK_REST
            THEN save_service_state(w1, s) ELSE w1

rem_callback(w, s, name) ==
    IF name \notin DOMAIN w.callbacks[s]
    THEN [w EXCEPT !.error = "KeyError"]
    ELSE save_service_state(
             [w EXCEPT !.callbacks[s] = [n \in DOMAIN @ \ {name} |-> @[n]]], s)

\* what one handle_callbacks call does: the handle invocations, the POSTs
\* issued (with the response requests.post came back with, inside the
\* call), the log record, and how the call ends
Dispatch(result, invoked, posted, logged) ==
    [result |-> result, invoked |-> invoked, posted |-> posted, logged |-> logged]

\* handle_callbacks without the try/except around the delivery
handle_callbacks_no_except(cbs, payload, name, outcome) ==
    IF name \notin DOMAIN cbs THEN Dispatch("returned", <<>>, <<>>, "none")
    ELSE LET argument == IF Truthy(payload) THEN payload ELSE Self
             callback == cbs[name].callback
         IN IF cbs[name].callback_type = CALLBACK_NATIVE
            THEN Dispatch(IF outcome = "ok" THEN "returned" ELSE "raised",
                          <<[handle |-> callback, argument |-> argument]>>, <<>>,
                          "info")
            ELSE IF outcome = "serialize_raises"
                 THEN Dispatch("raised", <<>>, <<>>, "info")
                 ELSE Dispatch(IF outcome = "post_raises" THEN "raised" ELSE "returned",
                               <<>>, <<[url |-> callback, json |-> argument, response |-> outcome]>>,
                               "info")

\* handle_callbacks without the membership test on the name
handle_callbacks_no_lookup(cbs, payload, name, outcome) ==
    IF name \notin DOMAIN cbs THEN Dispatch("KeyError", <<>>, <<>>, "none")
    ELSE LET argument == IF Truthy(payload) THEN payload ELSE Self
             callback == cbs[name].callback
         IN IF cbs[name].callback_type = CALLBACK_NATIVE
            THEN Dispatch("returned",
                          <<[handle |-> callback, argument |-> argument]>>, <<>>,
                          IF outcome = "ok" THEN "info" ELSE "exception")
            ELSE IF outcome = "serialize_raises"
                 THEN Dispatch("returned", <<>>, <<>>, "exception")
                 ELSE Dispatch("returned", <<>>,
                               <<[url |-> callback, json |-> argument, response |-> outcome]>>,
                               IF outcome = "post_raises" THEN "exception" ELSE "info")

handle_callbacks(cbs, payload, name, outcome) ==
    IF name \notin DOMAIN cbs THEN Dispatch("returned", <<>>, <<>>, "none")
    ELSE LET argument == IF Truthy(payload) THEN payload ELSE Self
             callback == cbs[name].callback
         IN IF cbs[name].callback_type = CALLBACK_NATIVE
            THEN Dispatch("returned",
                          <<[handle |-> callback, argument |-> argument]>>, <<>>,
                          IF outcome = "ok" THEN "info" ELSE "exception")
            ELSE IF outcome = "serialize_raises"
                 THEN Dispatch("returned", <<>>, <<>>, "exception")
                 ELSE Dispatch("returned", <<>>,
                               <<[url |-> callback, json |-> argument, response |-> outcome]>>,
                               IF outcome = "post_raises" THEN "exception" ELSE "info")

\* the outcomes a delivery to the entry registered under name can have
OutcomesFor(cbs, name) ==
    IF name \notin DOMAIN cbs THEN {"ok"}
    ELSE IF cbs[name].callback_type = CALLBACK_NATIVE THEN {"ok", "handle_raises"}
    ELSE {"ok", "serialize_raises", "post_raises", "status_500"}

\* WorkerCallbacksHandler.post, or an in-process caller registering a handle
AddCallback(s, callback, name, callback_type) ==
    /\ Reachable(s)
    /\ callback_type = CALLBACK_REST => callback \in Urls
    /\ LET w == add_callback(World, s, callback, name, callback_type) IN
       /\ Commit(w)
       /\ last' = Op("add_callback", s, name, callback_type, callback, 0, None,
                     Result(w), w.saves, <<>>, <<>>, "none")
    /\ UNCHANGED <<projects, db, projdesc, dbdesc, fired>>

\* WorkerCallbacksHandler.delete; kind records the type of the entry found
RemCallback(s, name) ==
    /\ Reachable(s)
    /\ LET w == rem_callback(World, s, name) IN
       /\ Commit(w)
       /\ last' = Op("rem_callback", s, name,
                     IF name \in DOMAIN callbacks[s]
                     THEN callbacks[s][name].callback_type ELSE None,
                     None, 0, None, Result(w), w.saves, <<>>, <<>>, "none")
    /\ UNCHANGED <<projects, db, projdesc, dbdesc, fired>>

\* WorkerCallbacksHandler.get: one entry, or the whole registry when no
\* callback name is given; a name that is not registered is a KeyError
get(cbs, callback) ==
    IF callback # None
    THEN IF callback \in DOMAIN cbs
         THEN [result |-> "returned", ret |-> cbs[callback]]
         ELSE [result |-> "KeyError", ret |-> NoEntries]
    ELSE [result |-> "returned", ret |-> cbs]

Get(s, callback) ==
    /\ Reachable(s)
    /\ LET r == get(callbacks[s], callback) IN
       last' = Returning(Op("get", s, callback, None, None, 0, None, r.result, 0,
                            <<>>, <<>>, "none"), r.ret)
    /\ UNCHANGED <<params, worker, timers, callbacks, durable, projects, db,
                   projdesc, dbdesc, fired>>

\* a tick or a request invoking the callback registered under name
HandleCallbacks(s, payload, name) ==
    /\ Reachable(s)
    /\ \E outcome \in OutcomesFor(callbacks[s], name) :
         LET d == handle_callbacks(callbacks[s], payload, name, outcome) IN
         last' = Op("handle_callbacks", s, name,
                    IF name \in DOMAIN callbacks[s]
                    THEN callbacks[s][name].callback_type ELSE None,
                    payload, 0, outcome, d.result, 0, d.invoked, d.posted, d.logged)
    /\ UNCHANGED <<params, worker, timers, callbacks, durable, projects, db,
                   projdesc, dbdesc, fired>>

\* ----------------------------------------------------- validation ---
\* values are written as Python literals: None, integers, quoted text
Values == {None, "0", "5", "''", "'abc'", "'7'", "'a'"}
IntValues == {"0", "5"}
StrValues == {"''", "'abc'", "'7'", "'a'"}

\* manifest['type']: a type name, a list of allowed values, or anything else
TypeName(n) == [kind |-> "name", name |-> n, allowed |-> {}]
TypeList(vs) == [kind |-> "list", name |-> None, allowed |-> vs]
TypeOther == [kind |-> "other", name |-> None, allowed |-> {}]

ManifestEntry(type, mandatory, default, static) ==
    [type |-> type, mandatory |-> mandatory, default |-> default, static |-> static]

\* self.manifest['params'] of the two service types
ManifestParams ==
    [s \in Services |->
        IF s = "s1"
        THEN [n \in {"every", "count", "label", "mode", "ttl", "shape"} |->
                CASE n = "every" -> ManifestEntry(TypeName("int"), FALSE, "-1", FALSE)
                  [] n = "count" -> ManifestEntry(TypeName("int"), TRUE, None, FALSE)
                  [] n = "label" -> ManifestEntry(TypeName("str"), TRUE, None, FALSE)
                  [] n = "mode" -> ManifestEntry(TypeList({"'a'", "'b'"}), TRUE, None, FALSE)
                  [] n = "ttl" -> ManifestEntry(TypeName("float"), FALSE, "5", FALSE)
                  [] n = "shape" -> ManifestEntry(TypeOther, FALSE, None, FALSE)]
        ELSE [n \in {"every", "ssid"} |->
                CASE n = "every" -> ManifestEntry(TypeName("int"), FALSE, "-1", TRUE)
                  [] n = "ssid" -> ManifestEntry(TypeName("str"), TRUE, None, TRUE)]]

ParamNames == {"every", "count", "label", "mode", "ttl", "shape", "ssid", "bogus"}

\* the keys of cast_dict whose classes are str and int
CastNames == {"str", "int"}

\* the literal of an integer
Lit(n) == ToString(n)

\* the integer literals: those of Values and those of the loop periods
IntLiterals == IntValues \cup {Lit(n) : n \in Periods}

\* int(value) and str(value) on literals: int() keeps an integer, parses
\* numeric text and raises on other text; str() keeps text and never raises
Cast(name, value) ==
    IF name = "int"
    THEN CASE value \in IntLiterals -> [ok |-> TRUE, val |-> value]
           [] value = "'7'" -> [ok |-> TRUE, val |-> "7"]
           [] OTHER -> [ok |-> FALSE, val |-> None]
    ELSE CASE value \in StrValues -> [ok |-> TRUE, val |-> value]
           [] value = "5" -> [ok |-> TRUE, val |-> "'5'"]
           [] OTHER -> [ok |-> TRUE, val |-> "'0'"]

Accepted(value) == [result |-> "returned", ret |-> value]
Rejected(error) == [result |-> error, ret |-> None]

\* validate_param from the empty-value tests on
ValidateValue(m, value) ==
    IF ~Truthy(value) /\ ~m.mandatory THEN Accepted(m.default)
    ELSE IF ~Truthy(value) /\ m.mandatory
    THEN Rejected("ValueError: cannot be null")
    ELSE IF m.type.kind = "name"
    THEN IF m.type.name \notin CastNames
         THEN Rejected("ValueError: Invalid value")
         ELSE IF Cast(m.type.name, value).ok
              THEN Accepted(Cast(m.type.name, value).val)
              ELSE Rejected("ValueError: invalid literal")
    ELSE IF m.type.kind = "list"
    THEN IF value \in m.type.allowed
         THEN Accepted(value)
         ELSE Rejected("ValueError: Invalid value")
    ELSE Rejected("ValueError: Invalid value")

\* validate_param that lets a name the manifest does not declare through
validate_param_unknown_allowed(s, stored, param, value) ==
    IF param \notin DOMAIN ManifestParams[s]
    THEN IF Truthy(value) THEN Accepted(value)
         ELSE Rejected("ValueError: cannot be null")
    ELSE IF param \in stored /\ ManifestParams[s][param].static
    THEN Rejected("ValueError: Parameter cannot be modified")
    ELSE ValidateValue(ManifestParams[s][param], value)

\* validate_param testing the static flag only once the value is not empty
validate_param_static_late(s, stored, param, value) ==
    IF param \notin DOMAIN ManifestParams[s]
    THEN Rejected("ValueError: Invalid parameter")
    ELSE IF ~Truthy(value) /\ ~ManifestParams[s][param].mandatory
    THEN Accepted(ManifestParams[s][param].default)
    ELSE IF param \in stored /\ ManifestParams[s][param].static
    THEN Rejected("ValueError: Parameter cannot be modified")
    ELSE ValidateValue(ManifestParams[s][param], value)

validate_param(s, stored, param, value) ==
    IF param \notin DOMAIN ManifestParams[s]
    THEN Rejected("ValueError: Invalid parameter")
    ELSE IF param \in stored /\ ManifestParams[s][param].static
    THEN Rejected("ValueError: Parameter cannot be modified")
    ELSE ValidateValue(ManifestParams[s][param], value)

\* a caller validating a value for a parameter of service s
ValidateParam(s, param, value) ==
    /\ LET r == validate_param(s, DOMAIN params[s], param, value) IN
       last' = Returning(Op("validate_param", s, param, None, value, 0, None,
                            r.result, 0, <<>>, <<>>, "none"), r.ret)
    /\ UNCHANGED <<params, worker, timers, callbacks, durable, projects, db,
                   projdesc, dbdesc, fired>>

\* ------------------------------------------------- ProjectsManager ---
\* Env.stop_services: stop() on every service the project owns, in order;
\* an error raised by one stop() ends the walk
RECURSIVE StopFrom(_, _, _)
StopFrom(w, p, i) ==
    IF i > Len(ServiceOrder) \/ w.error # "none" THEN w
    ELSE IF Context[ServiceOrder[i]] = p
         THEN StopFrom(stop(w, ServiceOrder[i]), p, i + 1)
         ELSE StopFrom(w, p, i + 1)

stop_services(w, p) == StopFrom(w, p, 1)

\* ProjectsManager.remove
Remove(p) ==
    IF p \notin projects
    THEN /\ last' = Op("remove", None, p, None, None, 0, None, "KeyError", 0, <<>>, <<>>, "none")
         /\ UNCHANGED <<params, worker, timers, callbacks, durable, projects, db,
                        projdesc, dbdesc, fired>>
    ELSE LET w == stop_services(World, p) IN
         /\ Commit(w)
         /\ UNCHANGED fired
         /\ last' = Op("remove", None, p, None, None, 0, None, Result(w), w.saves, <<>>, <<>>, "none")
         /\ IF w.error # "none"
            THEN UNCHANGED <<projects, db, projdesc, dbdesc>>
            ELSE /\ db' = db \ {p}
                 /\ dbdesc' = [dbdesc EXCEPT ![p] = None]
                 /\ projects' = projects \ {p}
                 /\ projdesc' = [projdesc EXCEPT ![p] = None]

\* accounts_manager.accounts, and the owners a request can name
Accounts == {"alice"}
Owners == {"alice", "mallory"}
Descs == {"d1", "d2"}
\* how project.save() and project.start_services() end
SaveOutcomes == {"ok", "raises"}
StartOutcomes == {"ok", "raises"}

Registry(ps, store, error) == [projects |-> ps, db |-> store, error |-> error]

\* ProjectsManager.create: checks, project.save(), registration,
\* start_services()
create(ps, store, desc, project_id, owner, saved, started) ==
    IF project_id \in ps
    THEN Registry(ps, store, "ValueError: Project already defined")
    ELSE IF owner \notin Accounts
    THEN Registry(ps, store, "KeyError: Username not found")
    ELSE IF saved = "raises"
    THEN Registry(ps, store, "save raised")
    ELSE IF started = "raises"
    THEN Registry(ps \cup {project_id}, store \cup {project_id},
                  "start_services raised")
    ELSE Registry(ps \cup {project_id}, store \cup {project_id}, "none")

\* ProjectsHandler.post.  The id of a removed project whose services are
\* modelled is not given to a new project.
Create(desc, project_id, owner) ==
    /\ project_id \in projects \/ \A s \in Services : Context[s] # project_id
    /\ \E saved \in SaveOutcomes, started \in StartOutcomes :
         LET r == create(projects, db, desc, project_id, owner, saved, started) IN
         /\ projects' = r.projects
         /\ db' = r.db
         /\ projdesc' = IF project_id \in r.projects \ projects
                        THEN [projdesc EXCEPT ![project_id] = desc] ELSE projdesc
         /\ dbdesc' = IF project_id \in r.db \ db
                      THEN [dbdesc EXCEPT ![project_id] = desc] ELSE dbdesc
         /\ last' = Op("create", None, project_id, desc, owner, 0,
                       IF saved = "raises" THEN "save_raises"
                       ELSE IF started = "raises" THEN "start_raises" ELSE "ok",
                       Result(r), 0, <<>>, <<>>, "none")
    /\ UNCHANGED <<params, worker, timers, callbacks, durable, fired>>

Described(mem, store, error) == [projdesc |-> mem, dbdesc |-> store, error |-> error]

\* ProjectsManager.update without the reload in the finally clause
update_no_refresh(ps, mem, store, project_id, desc, saved) ==
    IF project_id \notin ps
    THEN Described(mem, store, "KeyError: Project not found")
    ELSE LET assigned == [mem EXCEPT ![project_id] = desc]
             written == IF saved = "ok"
                        THEN [store EXCEPT ![project_id] = assigned[project_id]]
                        ELSE store
         IN  Described(assigned, written,
                       IF saved = "ok" THEN "none" ELSE "save raised")

\* ProjectsManager.update: lookup, project.desc = desc, project.save(),
\* and in the finally clause project.refresh_from_db(), which reloads the
\* object from its stored document
update(ps, mem, store, project_id, desc, saved) ==
    IF project_id \notin ps
    THEN Described(mem, store, "KeyError: Project not found")
    ELSE LET assigned == [mem EXCEPT ![project_id] = desc]
             written == IF saved = "ok"
                        THEN [store EXCEPT ![project_id] = assigned[project_id]]
                        ELSE store
             refreshed == [assigned EXCEPT ![project_id] = written[project_id]]
         IN  Described(refreshed, written,
                       IF saved = "ok" THEN "none" ELSE "save raised")

\* ProjectsHandler.put
Update(project_id, desc) ==
    /\ \E saved \in SaveOutcomes :
         LET r == update(projects, projdesc, dbdesc, project_id, desc, saved) IN
         /\ projdesc' = r.projdesc
         /\ dbdesc' = r.dbdesc
         /\ last' = Op("update", None, project_id, desc, None, 0,
                       IF project_id \notin projects THEN None
                       ELSE IF saved = "raises" THEN "save_raises" ELSE "ok",
                       Result(r), 0, <<>>, <<>>, "none")
    /\ UNCHANGED <<params, worker, timers, callbacks, durable, projects, db, fired>>

\* the PeriodicCallbacks of service s that are still scheduled
RunningTimers(s) ==
    {t \in DOMAIN timers : timers[t].svc = s /\ timers[t].running}

\* --------------------------------------------------- specifications ---
NextLifecycle ==
    \/ \E s \in Services : Start(s)
    \/ \E s \in Services : Stop(s)
    \/ \E s \in Services, v \in EveryInputs : SetEvery(s, v)
    \/ \E t \in 1..MaxTimers : Tick(t)
    \/ \E p \in ProjectIds : Remove(p)

SpecLifecycle == Init /\ [][NextLifecycle]_vars

\* start, stop and the timers, with the event loop running every firing
\* that stays scheduled
NextLoop ==
    \/ \E s \in Services : Start(s)
    \/ \E s \in Services : Stop(s)
    \/ \E t \in 1..MaxTimers : Tick(t)

SpecLoop ==
    Init /\ [][NextLoop]_vars /\ \A t \in 1..MaxTimers : WF_vars(Tick(t))

NextProjects ==
    \/ \E c \in Descs, p \in CreateIds, o \in Owners : Create(c, p, o)
    \/ \E p \in CreateIds : Remove(p)
    \/ \E p \in CreateIds, c \in Descs : Update(p, c)

SpecProjects == Init /\ [][NextProjects]_vars

NextValidate ==
    \E s \in Services, n \in ParamNames, v \in Values : ValidateParam(s, n, v)

SpecValidate == Init /\ [][NextValidate]_vars

NextCallbacks ==
    \/ \E s \in Services, c \in Targets, n \in CallbackNames, k \in CallbackKinds :
          AddCallback(s, c, n, k)
    \/ \E s \in Services, n \in CallbackNames : RemCallback(s, n)
    \/ \E s \in Services, q \in Payloads, n \in CallbackNames :
          HandleCallbacks(s, q, n)
    \/ \E s \in Services, n \in CallbackNames \cup {None} : Get(s, n)

SpecCallbacks == Init /\ [][NextCallbacks]_vars

Next == NextLifecycle \/ NextCallbacks \/ NextValidate \/ NextProjects

Spec == Init /\ [][Next]_vars

\* ------------------------------------------------------------ claims ---
\* C1: after any sequence of start(), stop() and `every` assignments, at
\* most one periodic timer is active for a service.
C1_AtMostOneTimer ==
    \A s \in Services : Cardinality(RunningTimers(s)) <= 1

\* C2: assigning `every` on a RUNNING service (its one timer has the old
\* period) leaves no timer of the old period scheduled: whatever may still
\* tick was created by the setter, with the new period.
C2_NoOldPeriodTick ==
    [][\A s \in Services :
          (/\ last'.op = "every" /\ last'.svc = s /\ last'.result = "returned"
           /\ worker[s] # NoWorker
           /\ RunningTimers(s) = {worker[s]})
          => \A t \in RunningTimers(s)' :
                /\ t \notin DOMAIN timers
                /\ timers'[t].period = params'[s].every]_vars

\* C3: no tick of a service is observed once its project has been removed.
C3_NoTickAfterRemove ==
    (last.op = "tick" /\ Context[last.svc] \in ProjectIds)
        => Context[last.svc] \in projects

\* C4: stop() on a service with no active loop raises nothing, issues exactly
\* one durable-save and changes nothing else.
C4_StopWithoutLoop ==
    [][\A s \in Services :
          (last'.op = "stop" /\ last'.svc = s /\ worker[s] = NoWorker)
          => /\ last'.result = "returned"
             /\ last'.saves = 1
             /\ UNCHANGED <<params, worker, timers, callbacks>>]_vars

\* the entry registered under the name of the last call, on its service
LastEntry == callbacks[last.svc][last.name]

\* C5: a failure raised while delivering a registered callback, native or
\* rest, is caught and logged by handle_callbacks: the call returns
\* normally and timer, parameters and registry are as before.
C5_DispatchFailureContained ==
    [][(last'.op = "handle_callbacks" /\ last'.outcome # "ok")
          => /\ last'.result = "returned"
             /\ last'.outcome \in {"handle_raises", "serialize_raises", "post_raises"}
                   => last'.logged = "exception"
             /\ last'.outcome = "status_500" => last'.logged = "info"
             /\ UNCHANGED <<params, worker, timers, callbacks>>]_vars

C5_Witness ==
    /\ last.op = "handle_callbacks"
    /\ last.kind = CALLBACK_REST
    /\ last.outcome = "post_raises"
    /\ last.result = "returned"
    /\ last.logged = "exception"

\* C6: handle_callbacks on a name that is not registered is a no-op: no
\* error, no handle call, no delivery, no durable-save, state unchanged.
C6_UnregisteredIsNoOp ==
    [][(last'.op = "handle_callbacks"
           /\ last'.name \notin DOMAIN callbacks[last'.svc])
          => /\ last'.result = "returned"
             /\ last'.invoked = <<>>
             /\ last'.posted = <<>>
             /\ last'.saves = 0
             /\ UNCHANGED <<params, worker, timers, callbacks, durable, projects, db>>]_vars

C6_Witness ==
    /\ last.op = "handle_callbacks"
    /\ last.name \notin DOMAIN callbacks[last.svc]
    /\ DOMAIN callbacks[last.svc] # {}
    /\ last.result = "returned"

\* C7: handle_callbacks on a registered native callback calls the handle
\* exactly once, with the payload whenever one is provided (falsy payloads
\* included) and with the service itself only when none is provided.
C7_NativeGetsPayload ==
    (/\ last.op = "handle_callbacks"
     /\ last.name \in DOMAIN callbacks[last.svc]
     /\ LastEntry.callback_type = CALLBACK_NATIVE)
    => last.invoked = <<[handle |-> LastEntry.callback,
                         argument |-> IF last.arg = None THEN Self ELSE last.arg]>>

C9_SaveIffRest ==
    [][(last'.op = "add_callback" /\ last'.result = "returned") =>
          LET s == last'.svc
              n == last'.name
          IN /\ last'.kind = CALLBACK_REST
                   => /\ last'.saves = 1
                      /\ callbacks'[s][n] = Entry(n, geturl(last'.arg), CALLBACK_REST)
                      /\ n \in DOMAIN durable'[s].callbacks
                      /\ durable'[s].callbacks[n] = callbacks'[s][n]
             /\ last'.kind = CALLBACK_NATIVE
                   => /\ last'.saves = 0
                      /\ durable' = durable
                      /\ callbacks'[s][n] = Entry(n, last'.arg, CALLBACK_NATIVE)]_vars

C9_Witness ==
    /\ last.op = "add_callback"
    /\ last.kind = CALLBACK_REST
    /\ last.arg = "HTTP://h/p"
    /\ last.result = "returned"
    /\ last.saves = 1
    /\ durable[last.svc].callbacks[last.name].callback = "http://h/p"

\* C10: rem_callback raises the not-found error for a name that is not
\* registered, registry unchanged and no durable-save; for a registered
\* name it deletes exactly that entry and issues exactly one durable-save,
\* whether the entry was native or rest.
C10_RemCallback ==
    [][last'.op = "rem_callback" =>
          LET s == last'.svc
              n == last'.name
          IN IF n \notin DOMAIN callbacks[s]
             THEN /\ last'.result = "KeyError"
                  /\ callbacks' = callbacks
                  /\ durable' = durable
                  /\ last'.saves = 0
             ELSE /\ last'.result = "returned"
                  /\ DOMAIN callbacks'[s] = DOMAIN callbacks[s] \ {n}
                  /\ \A m \in DOMAIN callbacks'[s] : callbacks'[s][m] = callbacks[s][m]
                  /\ \A o \in Services \ {s} : callbacks'[o] = callbacks[o]
                  /\ last'.saves = 1]_vars

C10_Witness ==
    /\ last.op = "rem_callback"
    /\ last.kind = CALLBACK_NATIVE
    /\ last.result = "returned"
    /\ last.saves = 1
    /\ DOMAIN callbacks[last.svc] # {}

\* C11 (as stated): reading a name back right after registering the rest
\* callback (n, u) returns {name: n, callback_type: rest, callback: u}.
C11_ReadBackRaw ==
    [][(/\ last.op = "add_callback" /\ last.kind = CALLBACK_REST
        /\ last.result = "returned"
        /\ last'.op = "get" /\ last'.svc = last.svc /\ last'.name = last.name)
       => /\ last'.result = "returned"
          /\ last'.ret = <<Entry(last.name, last.arg, CALLBACK_REST)>>]_vars

\* C11 (amended): the entry read back holds the normalized URL; a read right
\* after removing n is not-found; the add changes the registry at n only and
\* the remove deletes n only, so that add then remove of a name that was not
\* registered gives back the registry as it was.
C11_RoundTrip ==
    [][/\ (/\ last.op = "add_callback" /\ last.kind = CALLBACK_REST
            /\ last.result = "returned"
            /\ last'.op = "get" /\ last'.svc = last.svc /\ last'.name = last.name)
           => /\ last'.result = "returned"
              /\ last'.ret = <<Entry(last.name, geturl(last.arg), CALLBACK_REST)>>
       /\ (/\ last.op = "rem_callback" /\ last.result = "returned"
            /\ last'.op = "get" /\ last'.svc = last.svc /\ last'.name = last.name)
           => last'.result = "KeyError"
       /\ (/\ last'.op = "add_callback" /\ last'.kind = CALLBACK_REST
            /\ last'.result = "returned"
            /\ last'.name \notin DOMAIN callbacks[last'.svc])
           => [n \in DOMAIN callbacks'[last'.svc] \ {last'.name}
                  |-> callbacks'[last'.svc][n]] = callbacks[last'.svc]
       /\ (/\ last.op = "add_callback" /\ last.kind = CALLBACK_REST
            /\ last.result = "returned"
            /\ last'.op = "rem_callback"
            /\ last'.svc = last.svc /\ last'.name = last.name)
           => /\ last'.result = "returned"
              /\ callbacks'[last.svc] =
                    [n \in DOMAIN callbacks[last.svc] \ {last.name}
                        |-> callbacks[last.svc][n]]]_vars

C11_Witness ==
    /\ last.op = "get"
    /\ last.name = "default"
    /\ last.result = "returned"
    /\ last.ret = <<Entry("default", "http://h/p", CALLBACK_REST)>>

\* C12: stop() issues its durable-save first, in every state it is called
\* from; when the service is RUNNING it then cancels the timer and clears
\* the handle, so that after stop() the handle is empty.
C12_StopSavesThenCancels ==
    [][\A s \in Services :
          (last'.op = "stop" /\ last'.svc = s)
          => /\ last'.saves = 1
             /\ durable'[s].params = params[s]
             /\ worker[s] # NoWorker
                   => /\ last'.result = "returned"
                      /\ worker'[s] = NoWorker
                      /\ ~timers'[worker[s]].running]_vars

\* C13: start() with period -1 allocates no timer and the service is IDLE,
\* no tick of it can fire; start() with another period allocates and starts
\* exactly one timer, of period `every`, which the service holds.
C13_Start ==
    [][\A s \in Services :
          (last'.op = "start" /\ last'.svc = s)
          => IF params[s].every = -1
             THEN /\ timers' = timers
                  /\ worker' = worker
                  /\ RunningTimers(s)' = {}
             ELSE /\ timers' = Append(timers, [svc |-> s, period |-> params[s].every,
                                               running |-> TRUE])
                  /\ worker'[s] = Len(timers')
                  /\ last'.result = "returned"]_vars

\* C14: validate_param on a name the manifest does not declare fails with
\* the unknown-parameter error, for every value, before any other check.
C14_UnknownParameter ==
    (last.op = "validate_param" /\ last.name \notin DOMAIN ManifestParams[last.svc])
        => last.result = "ValueError: Invalid parameter"

C14_Witness ==
    /\ last.op = "validate_param"
    /\ last.name = "bogus"
    /\ last.arg = None
    /\ last.result = "ValueError: Invalid parameter"

\* the values the declared type of a manifest entry accepts
TypeValues(m) ==
    IF m.type.kind = "list" THEN m.type.allowed
    ELSE IF m.type.name = "int" THEN IntValues
    ELSE IF m.type.name = "str" THEN StrValues
    ELSE {}

\* C15: for a mandatory parameter with no default (and no stored value), an
\* omitted value fails with the missing-mandatory error and every value of
\* the declared type, 0 and the empty string included, is returned
\* unchanged.
C15_MandatoryEcho ==
    (/\ last.op = "validate_param"
     /\ last.name \in DOMAIN ManifestParams[last.svc]
     /\ ManifestParams[last.svc][last.name].mandatory
     /\ last.name \notin DOMAIN params[last.svc])
    => /\ last.arg = None => last.result = "ValueError: cannot be null"
       /\ last.arg \in TypeValues(ManifestParams[last.svc][last.name])
             => /\ last.result = "returned"
                /\ last.ret = <<last.arg>>

\* C16: validate_param fails with the immutable-parameter error for every
\* value whenever the manifest marks the name static and the service holds
\* a value for it; without a stored value the static flag causes no failure.
C16_Immutable ==
    (last.op = "validate_param" /\ last.name \in DOMAIN ManifestParams[last.svc])
    => LET m == ManifestParams[last.svc][last.name] IN
       /\ (m.static /\ last.name \in DOMAIN params[last.svc])
             => last.result = "ValueError: Parameter cannot be modified"
       /\ (m.static /\ last.name \notin DOMAIN params[last.svc])
             => /\ last.result # "ValueError: Parameter cannot be modified"
                /\ last.result = ValidateValue(m, last.arg).result

C16_Witness ==
    /\ last.op = "validate_param"
    /\ last.svc = "s2"
    /\ last.name = "every"
    /\ last.arg = None
    /\ last.result = "ValueError: Parameter cannot be modified"

\* C17: every write to a service's parameter map goes through
\* validate_param: the map holds only names the manifest declares, a value
\* written is one validate_param accepted, and a stored static parameter
\* never changes.
C17_WritesValidated ==
    [][\A s \in Services :
          /\ DOMAIN params'[s] \subseteq DOMAIN ManifestParams[s]
          /\ params'[s] # params[s]
                => LET r == validate_param(s, DOMAIN params[s], "every",
                                           Lit(params'[s].every))
                   IN /\ r.result = "returned"
                      /\ r.ret = Lit(params'[s].every)]_vars

\* the services project p owns
Owned(p) == {s \in Services : Context[s] = p}

\* C18: remove fails with not-found and changes nothing for a project that
\* is not registered; otherwise it stops every owned service, then deletes
\* the durable record and the in-memory entry: the record is never deleted
\* while an owned service has a running timer, and when stopping fails the
\* project stays registered and persisted.
C18_RemoveOrder ==
    [][last'.op = "remove" =>
          LET p == last'.name IN
          IF p \notin projects
          THEN /\ last'.result = "KeyError"
               /\ UNCHANGED <<params, worker, timers, callbacks, durable, projects, db>>
          ELSE IF last'.result = "returned"
          THEN /\ projects' = projects \ {p}
               /\ db' = db \ {p}
               /\ \A s \in Owned(p) : RunningTimers(s)' = {}
          ELSE /\ projects' = projects
               /\ db' = db]_vars

\* C19: create fails for a registered id and for an unknown owner, and
\* whenever create raises, also because saving the project or starting its
\* services failed, the project map and the store are as before the call.
C19_CreateAbortsCleanly ==
    [][last'.op = "create" =>
          /\ last'.name \in projects
                => last'.result = "ValueError: Project already defined"
          /\ (last'.name \notin projects /\ last'.arg \notin Accounts)
                => last'.result = "KeyError: Username not found"
          /\ last'.result # "returned"
                => /\ projects' = projects
                   /\ db' = db]_vars

\* C20: handle_callbacks on a rest callback returns before the network
\* delivery has completed: at its return the POST it issued is still
\* outstanding, no response or error has come back yet.
C20_RemoteDeliveryOutstanding ==
    (/\ last.op = "handle_callbacks"
     /\ last.kind = CALLBACK_REST
     /\ last.posted # <<>>)
    => \A i \in DOMAIN last.posted :
          last.posted[i].response \notin {"ok", "status_500", "post_raises"}

\* C22: after every completed add_callback or rem_callback, the rest
\* entries of the service's durable record are the rest entries of its
\* in-memory registry.
C22_DurableMatchesRegistry ==
    (/\ last.op \in {"add_callback", "rem_callback"}
     /\ last.result = "returned")
    => durable[last.svc].callbacks = RestEntries(callbacks[last.svc])

\* C23: the timer handle is set exactly when the service has a scheduled
\* timer, it is never held while the period is -1, and the held timer is
\* scheduled with the current value of `every`.
C23_HandleIffRunning ==
    \A s \in Services :
       /\ worker[s] # NoWorker <=> RunningTimers(s) # {}
       /\ worker[s] # NoWorker
             => /\ params[s].every # -1
                /\ timers[worker[s]].running
                /\ timers[worker[s]].period = params[s].every

Scheduled(t) == t \in DOMAIN timers /\ timers[t].running

\* the last step was a firing of timer t whose body raised
FailedTick(t) ==
    /\ last.op = "tick"
    /\ last.name = ToString(t)
    /\ last.outcome = "raises"

====
